---- MODULE Spec2Model ----
(***************************************************************************)
(* A model of kodos, an incremental build orchestrator for Go packages.   *)
(*                                                                         *)
(* Two programs can be assembled from the sources:                         *)
(*   "cmd": cmd/kodos/kodos.go (main, its own transform and computeStale,  *)
(*          buildPackages, buildPackage) on top of the root package        *)
(*          kodos.go (IsStale, Compile, Link);                             *)
(*   "lib": the package revision that carries Transform, transform,        *)
(*          computeStale, IsStale, Compile (with copyfile) and Link,       *)
(*          driven by the same buildPackages / buildPackage.               *)
(* The variable program selects one of them for a whole behaviour.        *)
(***************************************************************************)
EXTENDS Integers, Sequences, FiniteSets, TLC

\* ------------------------------------------------------------------ bounds
MaxDescs == 2      \* descriptors of an arbitrary (possibly malformed) input
MaxImports == 1    \* import identities per descriptor of such an input
MaxStamp == 2      \* initial file modification times are 1..MaxStamp

\* Identities: ordinary units and the synthetic package "unsafe".
UnitIds == {"a", "b", "c"}
Ids == UnitIds \cup {"unsafe"}

VARIABLES
  program,   \* "cmd" or "lib"
  v,         \* the descriptors ([]*build.Package) given to transform
  force,     \* Context.force
  race,      \* Context.race
  bad,       \* the units whose Go source the compile tool rejects
  srcmt,     \* mtimes of each unit's source files: [go, s]
  pkgfile,   \* the file <dir>/<ImportPath>.a of each directory of artifacts: [mt, data]
  binfile,   \* the final binary of each unit: [mt, data]
  tmpfile,   \* the temporary file of the Link in progress: [mt, data]
  now,       \* the filesystem clock
  pc,        \* position of main
  heap,      \* the *Package objects allocated by transform
  pkgs,      \* the roots returned by transform (heap addresses)
  err,       \* the fatal error / panic that ended graph construction
  targets,   \* map[string]func() error: ImportPath -> closure (0: absent)
  acts,      \* the closures created by buildPackage
  plan,      \* deps captured by the closure buildPackages returns
  stack,     \* the call stack of the running plan
  result,    \* what the plan returned
  log,       \* the calls made in this invocation, in order
  run,       \* "first": the build; "second": the build that follows it
  edited,    \* sources changed since the previous invocation ended
  binBefore  \* the binary as it was when the Link in progress started

fsVars == <<srcmt, pkgfile, binfile, tmpfile, now>>
inVars == <<program, v, force, race, bad>>
graphVars == <<heap, pkgs, err>>
planVars == <<targets, acts, plan>>
execVars == <<stack, result, log, binBefore>>
vars == <<inVars, fsVars, pc, graphVars, planVars, execVars, run, edited>>

\* The source files of a unit: its Go files and its assembly files (SFiles),
\* each kind with one modification time.
SourceFiles == {"go", "s"}
Sources(go, sf) == [go |-> go, s |-> sf]

\* A file: its modification time (0: no such file) and what it holds.
NoFile == [mt |-> 0, data |-> "none"]
File(mt, data) == [mt |-> mt, data |-> data]

\* ------------------------------------------------------------------ errors
\* An error value: its kind, the call that raised it and the identities its
\* message names.
NoErr == [kind |-> "none", at |-> "", names |-> {}]
Error(kind, at, names) == [kind |-> kind, at |-> at, names |-> names]

\* --------------------------------------------------------------- descriptors
\* A *build.Package as far as the tool reads it: ImportPath, Imports and
\* Name == "main".
ImportLists ==
  {s \in UNION {[1..n -> UnitIds] : n \in 0..MaxImports} :
     \A i, j \in DOMAIN s : i # j => s[i] # s[j]}

Descs == [ImportPath : UnitIds, Imports : ImportLists, Main : BOOLEAN]

\* srcs[pkg.ImportPath] = pkg, for pkg in range v: the last descriptor wins.
SrcsDomain(vv) == {vv[i].ImportPath : i \in DOMAIN vv}
Srcs(vv, path) ==
  CHOOSE i \in DOMAIN vv :
    /\ vv[i].ImportPath = path
    /\ \A j \in DOMAIN vv : vv[j].ImportPath = path => j <= i

\* A *Package object.
NewPackage(src, deps) ==
  [ImportPath |-> src.ImportPath, Imports |-> deps, Main |-> src.Main,
   race |-> race, testScope |-> FALSE, NotStale |-> FALSE]

NoSeen == [p \in Ids |-> 0]

\* ------------------------------------------------------ transform (library)
\* walk of the library transform. w = [heap, seen, err, ret]; active is the
\* set of descriptors whose walk has started and not returned. seen is set
\* only when a walk returns, so re-entering an active descriptor recurses
\* without end: the goroutine stack overflows and the runtime aborts.
RECURSIVE LibWalk(_, _, _, _)
RECURSIVE LibDeps(_, _, _, _, _, _)
\* LibWalk without the lookup in seen: every reference gets a node of its
\* own.
LibWalkCopies(vv, i, w, active) ==
  LET path == vv[i].ImportPath IN
  IF i \in active
  THEN [w EXCEPT !.err = Error("overflow", "transform: walk", {})]
  ELSE LET d == LibDeps(vv, i, 1, w, <<>>, active \cup {i}) IN
       IF d.w.err # NoErr THEN d.w
       ELSE LET addr == Len(d.w.heap) + 1 IN
            [heap |-> Append(d.w.heap, NewPackage(vv[i], d.deps)),
             seen |-> [d.w.seen EXCEPT ![path] = addr],
             err  |-> NoErr,
             ret  |-> addr]

LibDeps(vv, i, k, w, deps, active) ==
  IF w.err # NoErr \/ k > Len(vv[i].Imports) THEN [w |-> w, deps |-> deps]
  ELSE LET path == vv[i].Imports[k] IN
       IF path \notin SrcsDomain(vv)
       THEN [w |-> [w EXCEPT !.err = Error("panic", "transform: not loaded", {path})],
             deps |-> deps]
       ELSE LET r == LibWalk(vv, Srcs(vv, path), w, active) IN
            LibDeps(vv, i, k + 1, r, Append(deps, r.ret), active)

LibWalk(vv, i, w, active) ==
  LET path == vv[i].ImportPath IN
  IF w.seen[path] # 0 THEN [w EXCEPT !.ret = w.seen[path]]
  ELSE IF i \in active
       THEN [w EXCEPT !.err = Error("overflow", "transform: walk", {})]
  ELSE LET d == LibDeps(vv, i, 1, w, <<>>, active \cup {i}) IN
       IF d.w.err # NoErr THEN d.w
       ELSE LET addr == Len(d.w.heap) + 1 IN
            [heap |-> Append(d.w.heap, NewPackage(vv[i], d.deps)),
             seen |-> [d.w.seen EXCEPT ![path] = addr],
             err  |-> NoErr,
             ret  |-> addr]

\* for _, p := range v { pkgs = append(pkgs, walk(p)) }
RECURSIVE LibRoots(_, _, _, _)
LibRoots(vv, k, w, roots) ==
  IF w.err # NoErr \/ k > Len(vv) THEN [w |-> w, pkgs |-> roots]
  ELSE LET r == LibWalk(vv, k, w, {}) IN
       LibRoots(vv, k + 1, r, IF r.err = NoErr THEN Append(roots, r.ret) ELSE roots)

\* check := make(map[*Package]bool) ... panic(p.ImportPath, "present twice")
PresentTwice(roots) ==
  {k \in DOMAIN roots : \E j \in 1..(k - 1) : roots[j] = roots[k]}

LibCheck(hp, roots) ==
  IF PresentTwice(roots) = {} THEN NoErr
  ELSE LET k == CHOOSE x \in PresentTwice(roots) :
                  \A y \in PresentTwice(roots) : x <= y
       IN Error("panic", "transform: present twice", {hp[roots[k]].ImportPath})

\* The library transform: the graph, or the panic that ended it.
LibTransform(vv) ==
  LET r == LibRoots(vv, 1, [heap |-> <<>>, seen |-> NoSeen, err |-> NoErr, ret |-> 0], <<>>)
      e == IF r.w.err # NoErr THEN r.w.err ELSE LibCheck(r.w.heap, r.pkgs)
  IN IF e # NoErr THEN [heap |-> <<>>, pkgs |-> <<>>, err |-> e]
     ELSE [heap |-> r.w.heap, pkgs |-> r.pkgs, err |-> NoErr]

\* ---------------------------------------------------- transform (cmd/kodos)
\* walk of cmd/kodos' transform. w = [heap, seen, err]; seen is a set of
\* import paths, set on entry. The Package it appends carries no Imports.
RECURSIVE CmdWalk(_, _, _)
RECURSIVE CmdDeps(_, _, _, _)
RECURSIVE CmdDepsSkipMissing(_, _, _, _)
\* CmdDeps without the fatal of "if !ok": an import that is not loaded is
\* passed over.
CmdDepsSkipMissing(vv, i, k, w) ==
  IF w.err # NoErr \/ k > Len(vv[i].Imports) THEN w
  ELSE LET path == vv[i].Imports[k] IN
       IF path \notin SrcsDomain(vv)
       THEN CmdDepsSkipMissing(vv, i, k + 1, w)
       ELSE CmdDepsSkipMissing(vv, i, k + 1, CmdWalk(vv, Srcs(vv, path), w))

CmdDeps(vv, i, k, w) ==
  IF w.err # NoErr \/ k > Len(vv[i].Imports) THEN w
  ELSE LET path == vv[i].Imports[k] IN
       IF path \notin SrcsDomain(vv)
       THEN [w EXCEPT !.err = Error("fatal", "transform: not loaded", {path})]
       ELSE CmdDeps(vv, i, k + 1, CmdWalk(vv, Srcs(vv, path), w))

CmdWalk(vv, i, w) ==
  LET path == vv[i].ImportPath IN
  IF w.err # NoErr \/ path \in w.seen THEN w
  ELSE LET d == CmdDeps(vv, i, 1, [w EXCEPT !.seen = w.seen \cup {path}]) IN
       IF d.err # NoErr THEN d
       ELSE [d EXCEPT !.heap = Append(d.heap, NewPackage(vv[i], <<>>))]

RECURSIVE CmdRoots(_, _, _)
CmdRoots(vv, k, w) ==
  IF w.err # NoErr \/ k > Len(vv) THEN w
  ELSE CmdRoots(vv, k + 1, CmdWalk(vv, k, w))

\* cmd/kodos' transform: every package walked is a root, dependencies first.
CmdTransform(vv) ==
  LET r == CmdRoots(vv, 1, [heap |-> <<>>, seen |-> {}, err |-> NoErr]) IN
  IF r.err # NoErr THEN [heap |-> <<>>, pkgs |-> <<>>, err |-> r.err]
  ELSE [heap |-> r.heap, pkgs |-> [k \in 1..Len(r.heap) |-> k], err |-> NoErr]

\* ------------------------------------------------------------- the filesystem
\* The directories that hold artifacts: Context.Pkgdir and the directory of
\* the race enabled standard library, GOROOT/pkg/<GOOS>_<GOARCH>_race.
PkgDirs == {"Pkgdir", "GOROOT_race"}
PkgPaths == PkgDirs \X Ids
NoPkgFiles == [q \in PkgPaths |-> NoFile]

\* pkgpath: where a cached artifact is looked for (isCrossCompile is false).
pkgpath(pk) == <<IF pk.race THEN "GOROOT_race" ELSE "Pkgdir", pk.ImportPath>>

\* installpath: where the library Compile installs, always under Pkgdir.
installpath(pk) == <<"Pkgdir", pk.ImportPath>>

\* Binfile: Bindir/<base of ImportPath>.
Binfile(pk) == pk.ImportPath

\* No identity is synthetic.
SyntheticNone(path) == FALSE

Synthetic(path) == path \in {"C", "unsafe"}

\* ------------------------------------------------------------------ IsStale
\* olderThan with !Before in place of After: an equal time counts as newer.
olderThanNotBefore(mt, built) == mt = 0 \/ mt >= built

\* olderThan(file): the file is missing or its ModTime is After(built).
olderThan(mt, built) == mt = 0 \/ mt > built

\* newerThan(file): the file is missing or its ModTime is Before(built).
newerThan(mt, built) == mt = 0 \/ mt < built

\* files(): stringList(p.GoFiles), the Go files alone.
files(pk) == {"go"}

IsStale(hp, n, frc, pf, bf, sm) ==
  LET pk == hp[n]
      built == pf[pkgpath(pk)].mt
  IN IF Synthetic(pk.ImportPath) THEN FALSE
     ELSE IF frc THEN TRUE
     ELSE IF pk.testScope THEN TRUE
     ELSE IF built = 0 THEN TRUE
     ELSE IF \E k \in DOMAIN pk.Imports :
               /\ ~Synthetic(hp[pk.Imports[k]].ImportPath)
               /\ olderThan(pf[pkgpath(hp[pk.Imports[k]])].mt, built) THEN TRUE
     ELSE IF pk.Main /\ newerThan(bf[Binfile(pk)].mt, built) THEN TRUE
     ELSE IF \E f \in files(pk) : olderThan(sm[pk.ImportPath][f], built) THEN TRUE
     ELSE FALSE

\* ------------------------------------------------------------- computeStale
\* walk of computeStale. w = [heap, seen, ret, evals]: seen is the set of
\* packages entered; a stale import ends the walk of pkg at once, before
\* IsStale and before the imports after it. evals lists the packages whose
\* IsStale was called and NotStale written, in that order.
RECURSIVE StaleWalk(_, _, _, _, _, _)
RECURSIVE StaleImports(_, _, _, _, _, _, _)
RECURSIVE StaleImportsIgnored(_, _, _, _, _, _, _)
\* StaleImports without "if !walk(i) { return false }": the imports are
\* walked and their verdicts dropped.
StaleImportsIgnored(n, k, w, frc, pf, bf, sm) ==
  IF k > Len(w.heap[n].Imports) THEN [w EXCEPT !.ret = TRUE]
  ELSE StaleImportsIgnored(n, k + 1, StaleWalk(w.heap[n].Imports[k], w, frc, pf, bf, sm),
                           frc, pf, bf, sm)

\* StaleWalk without the lookup in seen: a package is walked again each time
\* it is reached.
StaleWalkAgain(n, w, frc, pf, bf, sm) ==
  LET d == StaleImports(n, 1, [w EXCEPT !.seen = w.seen \cup {n}], frc, pf, bf, sm) IN
  IF ~d.ret THEN d
  ELSE LET stale == IsStale(d.heap, n, frc, pf, bf, sm) IN
       [d EXCEPT !.heap[n].NotStale = ~stale, !.ret = ~stale, !.evals = Append(@, n)]

StaleImports(n, k, w, frc, pf, bf, sm) ==
  IF k > Len(w.heap[n].Imports) THEN [w EXCEPT !.ret = TRUE]
  ELSE LET r == StaleWalk(w.heap[n].Imports[k], w, frc, pf, bf, sm) IN
       IF ~r.ret THEN r
       ELSE StaleImports(n, k + 1, r, frc, pf, bf, sm)

StaleWalk(n, w, frc, pf, bf, sm) ==
  IF n \in w.seen THEN [w EXCEPT !.ret = w.heap[n].NotStale]
  ELSE LET d == StaleImports(n, 1, [w EXCEPT !.seen = w.seen \cup {n}], frc, pf, bf, sm) IN
       IF ~d.ret THEN d
       ELSE LET stale == IsStale(d.heap, n, frc, pf, bf, sm) IN
            [d EXCEPT !.heap[n].NotStale = ~stale, !.ret = ~stale, !.evals = Append(@, n)]

RECURSIVE StaleRoots(_, _, _, _, _, _, _)
StaleRoots(roots, k, w, frc, pf, bf, sm) ==
  IF k > Len(roots) THEN w
  ELSE StaleRoots(roots, k + 1, StaleWalk(roots[k], w, frc, pf, bf, sm), frc, pf, bf, sm)

\* computeStale(roots...): the walk of every root in turn.
staleRun(hp, roots, frc, pf, bf, sm) ==
  StaleRoots(roots, 1, [heap |-> hp, seen |-> {}, ret |-> FALSE, evals |-> <<>>],
             frc, pf, bf, sm)

\* computeStale(roots...): the heap with NotStale set.
computeStale(hp, roots, frc, pf, bf, sm) == staleRun(hp, roots, frc, pf, bf, sm).heap


\* ------------------------------------------------------------- buildPackage
\* A closure returned by buildPackage: "uptodate" (prints and returns nil) or
\* "build" (runs deps, Compile, and Link for a command).
Closure(kind, n, deps) == [kind |-> kind, pkg |-> n, deps |-> deps]

NoTargets == [p \in Ids |-> 0]

\* w = [targets, acts, ret]: the map, the closures allocated so far and the
\* closure returned.
RECURSIVE buildPackage(_, _, _)
RECURSIVE buildDeps(_, _, _, _, _)
buildDeps(hp, n, k, w, deps) ==
  IF k > Len(hp[n].Imports) THEN [w |-> w, deps |-> deps]
  ELSE LET r == buildPackage(hp, hp[n].Imports[k], w) IN
       buildDeps(hp, n, k + 1, r, Append(deps, r.ret))

buildPackage(hp, n, w) ==
  LET path == hp[n].ImportPath IN
  IF w.targets[path] # 0 THEN [w EXCEPT !.ret = w.targets[path]]
  ELSE IF hp[n].NotStale
       THEN [w EXCEPT !.acts = Append(w.acts, Closure("uptodate", n, <<>>)),
                      !.ret = Len(w.acts) + 1]
  ELSE LET d == buildDeps(hp, n, 1, w, <<>>)
           a == Len(d.w.acts) + 1
       IN [targets |-> [d.w.targets EXCEPT ![path] = a],
           acts    |-> Append(d.w.acts, Closure("build", n, d.deps)),
           ret     |-> a]

\* buildPackages: one closure per root, in the order of the roots.
RECURSIVE buildPackages(_, _, _, _, _)
buildPackages(hp, roots, k, w, deps) ==
  IF k > Len(roots) THEN [targets |-> w.targets, acts |-> w.acts, plan |-> deps]
  ELSE LET r == buildPackage(hp, roots[k], w) IN
       buildPackages(hp, roots, k + 1, r, Append(deps, r.ret))

\* ------------------------------------------------------------ plan execution
\* A frame of the call stack: the closure running (0: the closure returned by
\* buildPackages), the index of the dep it is at and its position.
Frame(a, i, st) == [act |-> a, i |-> i, st |-> st]
Top == stack[Len(stack)]
Caller == SubSeq(stack, 1, Len(stack) - 1)
TopPkg == heap[acts[Top.act].pkg]
Ev(op, path, e) == [op |-> op, pkg |-> path, err |-> e]

\* The loop without its "return err": an error of a dep is dropped.
ReturnsNever(f, e) == FALSE

\* The loop returning the value of its first dep, whatever it is.
ReturnsAlways(f, e) == TRUE

\* for _, fn := range deps { if err := fn(); err != nil { return err } }
\* What the loop of the closure in frame f does with the value e its callee
\* returned: TRUE when the closure returns e itself.
ReturnsOnError(f, e) == e # NoErr

\* The closure on top of st returns e: its frame is popped and the value is
\* handed to the loop of its caller, which returns in turn on an error.
\* Yields the stack, the log, whether the plan returned and its result.
RECURSIVE Return(_, _, _)
Return(st, e, lg) ==
  LET rest == SubSeq(st, 1, Len(st) - 1)
      f == st[Len(st)]
  IN IF rest = <<>>
     THEN [stack |-> <<>>, log |-> lg, done |-> TRUE, result |-> e]
     ELSE LET c == rest[Len(rest)]
              lg2 == IF c.act = 0
                     THEN Append(lg, Ev("RootRet", heap[acts[f.act].pkg].ImportPath, e))
                     ELSE lg
          IN IF ReturnsOnError(c, e) THEN Return(rest, e, lg2)
             ELSE [stack |-> [rest EXCEPT ![Len(rest)].i = c.i + 1],
                   log |-> lg2, done |-> FALSE, result |-> NoErr]

\* The plan itself returns nil after its last dep.
Deliver(r) ==
  /\ stack' = r.stack
  /\ log' = r.log
  /\ result' = r.result
  /\ pc' = IF r.done THEN "done" ELSE pc

\* ------------------------------------------------------------------ actions
InputLists == UNION {[1..n -> Descs] : n \in 1..MaxDescs}

IdleInit ==
  /\ force = FALSE
  /\ tmpfile = NoFile
  /\ pc = "transform"
  /\ heap = <<>>
  /\ pkgs = <<>>
  /\ err = NoErr
  /\ targets = NoTargets
  /\ acts = <<>>
  /\ plan = <<>>
  /\ stack = <<>>
  /\ result = NoErr
  /\ log = <<>>
  /\ run = "first"
  /\ edited = FALSE
  /\ binBefore = NoFile

\* pkgs := transform(ctx, srcs...)
Transform ==
  /\ pc = "transform"
  /\ LET r == IF program = "lib" THEN LibTransform(v) ELSE CmdTransform(v) IN
     /\ heap' = r.heap
     /\ pkgs' = r.pkgs
     /\ err' = r.err
     /\ pc' = IF r.err = NoErr THEN "computeStale" ELSE "fatal"
  /\ UNCHANGED <<inVars, fsVars, planVars, execVars, run, edited>>

\* computeStale(pkgs...)
ComputeStale ==
  /\ pc = "computeStale"
  /\ heap' = computeStale(heap, pkgs, force, pkgfile, binfile, srcmt)
  /\ pc' = "buildPackages"
  /\ UNCHANGED <<inVars, fsVars, pkgs, err, planVars, execVars, run, edited>>

\* fn, err := buildPackages(targets, pkgs...); check(err); the call fn()
BuildPackages ==
  /\ pc = "buildPackages"
  /\ LET r == buildPackages(heap, pkgs, 1, [targets |-> NoTargets, acts |-> <<>>, ret |-> 0], <<>>) IN
     /\ targets' = r.targets
     /\ acts' = r.acts
     /\ plan' = r.plan
  /\ stack' = <<Frame(0, 1, "plan")>>
  /\ pc' = "run"
  /\ UNCHANGED <<inVars, fsVars, graphVars, result, log, binBefore, run, edited>>

\* The call fn() of closure a from the loop of the frame on top.
Call(a) ==
  LET path == heap[acts[a].pkg].ImportPath
      lg == IF Top.act = 0 THEN Append(log, Ev("RootCall", path, NoErr)) ELSE log
  IN IF acts[a].kind = "uptodate"
     THEN \* fmt.Println(pkg.ImportPath, "is up to date"); return nil
          Deliver(Return(Append(stack, Frame(a, 1, "uptodate")), NoErr,
                         Append(lg, Ev("uptodate", path, NoErr))))
     ELSE /\ stack' = Append(stack, Frame(a, 1, "deps"))
          /\ log' = lg
          /\ UNCHANGED <<result, pc>>

\* The loop of the closure returned by buildPackages.
PlanStep ==
  /\ pc = "run" /\ stack # <<>> /\ Top.st = "plan"
  /\ IF Top.i <= Len(plan) THEN Call(plan[Top.i])
     ELSE Deliver(Return(stack, NoErr, log))
  /\ UNCHANGED <<inVars, fsVars, graphVars, planVars, binBefore, run, edited>>

\* step 1 of a build closure: the loop over deps.
DepStep ==
  /\ pc = "run" /\ stack # <<>> /\ Top.st = "deps"
  /\ Top.i <= Len(acts[Top.act].deps)
  /\ Call(acts[Top.act].deps[Top.i])
  /\ UNCHANGED <<inVars, fsVars, graphVars, planVars, binBefore, run, edited>>

\* The value the build closure on top got from pkg.Compile():
\*   if err := pkg.Compile(); err != nil { return err }
\*   if !pkg.Main { return nil }
\*   return pkg.Link()
\* tf is the failure of the compile tool inside that Compile, if any.
AfterCompileLog(lg1, e, tf) ==
  LET lg0 == IF tf = NoErr THEN lg1
             ELSE Append(lg1, Ev("ToolFailed", TopPkg.ImportPath, tf))
      lg == Append(lg0, Ev("CompileRet", TopPkg.ImportPath, e))
  IN IF e # NoErr \/ ~TopPkg.Main
     THEN Deliver(Return(stack, e, lg)) /\ UNCHANGED binBefore
     ELSE /\ stack' = [stack EXCEPT ![Len(stack)].st = "Link:temp"]
          /\ log' = Append(lg, Ev("Link", TopPkg.ImportPath, NoErr))
          /\ binBefore' = binfile[Binfile(TopPkg)]
          /\ UNCHANGED <<result, pc>>

AfterCompile(e, tf) == AfterCompileLog(log, e, tf)

\* The calls that touch a directory, in the log: mkdir of the directory of
\* the cache path or of the binary, and the creation of a file in it.
MkdirOp == [Pkgdir |-> "mkdir Pkgdir", GOROOT_race |-> "mkdir GOROOT_race",
            Bindir |-> "mkdir Bindir"]
CreateOp == [Pkgdir |-> "create Pkgdir", GOROOT_race |-> "create GOROOT_race",
             Bindir |-> "create Bindir"]
Mkdir(lg, dir) == Append(lg, Ev(MkdirOp[dir], TopPkg.ImportPath, NoErr))
Create(lg, dir) == Append(lg, Ev(CreateOp[dir], TopPkg.ImportPath, NoErr))

\* The value the build closure on top got from pkg.Link(), which it returns.
AfterLink(e) ==
  Deliver(Return(stack, e, Append(log, Ev("LinkRet", TopPkg.ImportPath, e))))

Goto(st) == stack' = [stack EXCEPT ![Len(stack)].st = st]
At(st) == pc = "run" /\ stack # <<>> /\ Top.st = st
Failed(at) == Error("error", at, {TopPkg.ImportPath})

\* step 2 of a build closure, once the loop over deps is over: pkg.Compile()
\* is called; it starts with mkdir(filepath.Dir(pkg.pkgpath())).
CompileCall ==
  /\ At("deps")
  /\ Top.i > Len(acts[Top.act].deps)
  /\ Goto("Compile:mkdir")
  /\ log' = Append(log, Ev("Compile", TopPkg.ImportPath, NoErr))
  /\ UNCHANGED <<inVars, fsVars, graphVars, planVars, result, pc, binBefore, run, edited>>

CompileMkdir ==
  /\ At("Compile:mkdir")
  /\ \/ /\ Goto(IF program = "lib" THEN "Compile:gc" ELSE "Compile:tool")
        /\ log' = Mkdir(log, pkgpath(TopPkg)[1])
        /\ UNCHANGED <<result, pc, binBefore>>
     \/ AfterCompile(Failed("Compile: mkdir"), NoErr)
  /\ UNCHANGED <<inVars, fsVars, graphVars, planVars, run, edited>>

\* What the library Compile returns when gc(pkg) failed with e.
GcFailed(e) == NoErr

\* Library Compile: gc(pkg) compiles into objfile() in the work directory;
\* then asm assembles each of the SFiles and pack archives the objects, all
\* in the work directory, and the failure of one of them is returned.
CompileGc ==
  /\ At("Compile:gc")
  /\ IF TopPkg.ImportPath \notin bad
     THEN \/ /\ Goto("Compile:copy")
             /\ UNCHANGED <<result, pc, log, binBefore>>
          \/ AfterCompile(Failed("Compile: asm"), Failed("Compile: asm"))
     ELSE AfterCompile(GcFailed(Failed("Compile: gc")), Failed("Compile: gc"))
  /\ UNCHANGED <<inVars, fsVars, graphVars, planVars, run, edited>>

\* Library Compile: return copyfile(pkg.installpath(), ofiles[0]). copyfile
\* makes the directory of the destination; it fails before os.Create
\* (os.Open, os.Create), or in io.Copy after os.Create has truncated the
\* destination.
CompileCopy ==
  /\ At("Compile:copy")
  /\ LET dst == installpath(TopPkg)
         made == Mkdir(log, dst[1])
     IN \/ /\ pkgfile' = [pkgfile EXCEPT ![dst] = File(now + 1, "full")]
           /\ now' = now + 1
           /\ AfterCompileLog(Create(made, dst[1]), NoErr, NoErr)
        \/ /\ UNCHANGED <<pkgfile, now>>
           /\ AfterCompileLog(made, Failed("Compile: copyfile"), NoErr)
        \/ /\ pkgfile' = [pkgfile EXCEPT ![dst] = File(now + 1, "partial")]
           /\ now' = now + 1
           /\ AfterCompileLog(Create(made, dst[1]), Failed("Compile: io.Copy"), NoErr)
  /\ UNCHANGED <<inVars, srcmt, binfile, tmpfile, graphVars, planVars, run, edited>>

\* Root package Compile: asm assembles each of the SFiles, and its failure
\* is returned; then the compile tool writes -o pkg.pkgpath() itself, and
\* Compile returns cmd.Run(). A failed compile tool leaves the output as it
\* was or partly written.
CompileTool ==
  /\ At("Compile:tool")
  /\ IF TopPkg.ImportPath \notin bad
     THEN \/ /\ pkgfile' = [pkgfile EXCEPT ![pkgpath(TopPkg)] = File(now + 1, "full")]
             /\ now' = now + 1
             /\ AfterCompileLog(Create(log, pkgpath(TopPkg)[1]), NoErr, NoErr)
          \/ /\ UNCHANGED <<pkgfile, now>>
             /\ AfterCompile(Failed("Compile: asm"), Failed("Compile: asm"))
     ELSE \/ /\ UNCHANGED <<pkgfile, now>>
             /\ AfterCompile(Failed("Compile: compile"), Failed("Compile: compile"))
          \/ /\ pkgfile' = [pkgfile EXCEPT ![pkgpath(TopPkg)] = File(now + 1, "partial")]
             /\ now' = now + 1
             /\ AfterCompileLog(Create(log, pkgpath(TopPkg)[1]),
                                Failed("Compile: compile"), Failed("Compile: compile"))
  /\ UNCHANGED <<inVars, srcmt, binfile, tmpfile, graphVars, planVars, run, edited>>

\* Link: tmp, err := ioutil.TempFile(filepath.Dir(pkg.Binfile()), ".kang-link")
LinkTemp ==
  /\ At("Link:temp")
  /\ \/ /\ tmpfile' = File(now + 1, "empty")
        /\ now' = now + 1
        /\ Goto("Link:run")
        /\ log' = Create(log, "Bindir")
        /\ UNCHANGED <<result, pc>>
     \/ /\ UNCHANGED <<tmpfile, now>>
        /\ AfterLink(Failed("Link: TempFile"))
  /\ UNCHANGED <<inVars, srcmt, pkgfile, binfile, graphVars, planVars, binBefore, run, edited>>

\* The link tool writing straight to the final path: -o pkg.Binfile().
LinkOutputBinfile == "bin"

\* Where the link tool writes its output: args -o tmp.Name().
LinkOutput == "tmp"

\* Link: cmd.Run() of the link tool, which reads pkg.pkgpath() and starts
\* writing its output, or fails at once, as it does when there is no whole
\* artifact at that path; on failure os.Remove(tmp.Name()) and return err.
LinkRun ==
  /\ At("Link:run")
  /\ \/ /\ pkgfile[pkgpath(TopPkg)].data = "full"
        /\ IF LinkOutput = "tmp"
           THEN tmpfile' = File(now + 1, "partial") /\ UNCHANGED binfile
           ELSE binfile' = [binfile EXCEPT ![Binfile(TopPkg)] = File(now + 1, "partial")]
                /\ UNCHANGED tmpfile
        /\ now' = now + 1
        /\ Goto("Link:wait")
        /\ UNCHANGED <<result, pc, log>>
     \/ /\ tmpfile' = NoFile
        /\ UNCHANGED <<binfile, now>>
        /\ AfterLink(Failed("Link: link"))
  /\ UNCHANGED <<inVars, srcmt, pkgfile, graphVars, planVars, binBefore, run, edited>>

\* Link: the link tool ends, its output complete, or fails part way.
LinkWait ==
  /\ At("Link:wait")
  /\ \/ /\ IF LinkOutput = "tmp"
           THEN tmpfile' = File(now + 1, "full") /\ UNCHANGED binfile
           ELSE binfile' = [binfile EXCEPT ![Binfile(TopPkg)] = File(now + 1, "full")]
                /\ UNCHANGED tmpfile
        /\ now' = now + 1
        /\ Goto("Link:mkdir")
        /\ UNCHANGED <<result, pc, log>>
     \/ /\ tmpfile' = NoFile
        /\ UNCHANGED <<binfile, now>>
        /\ AfterLink(Failed("Link: link"))
  /\ UNCHANGED <<inVars, srcmt, pkgfile, graphVars, planVars, binBefore, run, edited>>

\* Link: mkdir(filepath.Dir(pkg.Binfile())); on failure os.Remove(tmp.Name()).
LinkMkdir ==
  /\ At("Link:mkdir")
  /\ \/ /\ Goto("Link:rename")
        /\ log' = Mkdir(log, "Bindir")
        /\ UNCHANGED <<tmpfile, result, pc>>
     \/ /\ tmpfile' = NoFile
        /\ AfterLink(Failed("Link: mkdir"))
  /\ UNCHANGED <<inVars, srcmt, pkgfile, binfile, now, graphVars, planVars, binBefore, run, edited>>

\* Link: return rename(tmp.Name(), pkg.Binfile()). os.Rename replaces the
\* destination in one step and keeps the modification time of the file.
LinkRename ==
  /\ At("Link:rename")
  /\ \/ /\ binfile' = [binfile EXCEPT ![Binfile(TopPkg)] = tmpfile]
        /\ tmpfile' = NoFile
        /\ AfterLink(NoErr)
     \/ /\ UNCHANGED <<binfile, tmpfile>>
        /\ AfterLink(Failed("Link: rename"))
  /\ UNCHANGED <<inVars, srcmt, pkgfile, now, graphVars, planVars, binBefore, run, edited>>

\* The process is killed inside Link.
Crash ==
  /\ pc = "run" /\ stack # <<>>
  /\ Top.st \in {"Link:temp", "Link:run", "Link:wait", "Link:mkdir", "Link:rename"}
  /\ pc' = "crashed"
  /\ UNCHANGED <<inVars, fsVars, graphVars, planVars, execVars, run, edited>>

\* The tool is invoked again after a build that reported success; at most
\* one source file (Go or assembly) of one unit was edited in between. Packages and closures of the
\* invocation before are gone, the files stay.
Rebuild ==
  /\ pc = "done" /\ result = NoErr
  /\ run = "first"
  /\ \E T \in {{}} \cup {{<<p, f>>} : p \in SrcsDomain(v), f \in SourceFiles} :
       /\ srcmt' = [p \in Ids |->
                      [f \in SourceFiles |-> IF <<p, f>> \in T THEN now + 1 ELSE srcmt[p][f]]]
       /\ now' = IF T = {} THEN now ELSE now + 1
       /\ edited' = (T # {})
  /\ run' = "second"
  /\ pc' = "transform"
  /\ heap' = <<>> /\ pkgs' = <<>>
  /\ targets' = NoTargets /\ acts' = <<>> /\ plan' = <<>>
  /\ stack' = <<>> /\ log' = <<>>
  /\ UNCHANGED <<inVars, pkgfile, binfile, tmpfile, err, result, binBefore>>

\* Well-formed inputs: one descriptor per identity, every import supplied,
\* no import cycle, and no command among the imports (the go tools reject the
\* import of a program). The descriptors are named in the order they are
\* given, so every shape of graph and every order of roots occurs up to
\* renaming.
IdSeq == <<"a", "b", "c">>

DagImportLists(i, n) ==
  {s \in UNION {[1..m -> {IdSeq[j] : j \in (1..n) \ {i}}] : m \in 0..(n - 1)} :
     \A x, y \in DOMAIN s : x # y => s[x] # s[y]}

Acyclic(vv) ==
  \E rank \in [DOMAIN vv -> DOMAIN vv] :
    /\ \A i, j \in DOMAIN vv : i # j => rank[i] # rank[j]
    /\ \A i \in DOMAIN vv : \A k \in DOMAIN vv[i].Imports :
         \A j \in DOMAIN vv : vv[j].ImportPath = vv[i].Imports[k] => rank[j] < rank[i]

Imported(vv, path) ==
  \E i \in DOMAIN vv : \E k \in DOMAIN vv[i].Imports : vv[i].Imports[k] = path

DagInputs ==
  UNION {
    {vv \in [1..n -> [ImportPath : UnitIds, Imports : UNION {DagImportLists(i, n) : i \in 1..n},
                      Main : BOOLEAN]] :
       /\ \A i \in 1..n : vv[i].ImportPath = IdSeq[i]
       /\ \A i \in 1..n : vv[i].Imports \in DagImportLists(i, n)
       /\ \A i \in 1..n : vv[i].Main => ~Imported(vv, vv[i].ImportPath)
       /\ Acyclic(vv)} : n \in 1..3}

\* The same inputs with one unit that imports nothing and is no command
\* being the synthetic package "unsafe".
Renamed(vv, i) ==
  LET to(p) == IF p = vv[i].ImportPath THEN "unsafe" ELSE p IN
  [j \in DOMAIN vv |->
     [ImportPath |-> to(vv[j].ImportPath),
      Imports |-> [k \in DOMAIN vv[j].Imports |-> to(vv[j].Imports[k])],
      Main |-> vv[j].Main]]

BuildInputs ==
  DagInputs \cup
  UNION {{Renamed(vv, i) : i \in {x \in DOMAIN vv : vv[x].Imports = <<>> /\ ~vv[x].Main}} :
           vv \in DagInputs}

\* A build from a fresh checkout: nothing cached, nothing linked.
Init ==
  /\ IdleInit
  /\ program \in {"cmd", "lib"}
  /\ race = FALSE
  /\ v \in BuildInputs
  /\ bad \in SUBSET SrcsDomain(v)
  /\ srcmt = [p \in Ids |-> Sources(1, 1)]
  /\ pkgfile = NoPkgFiles
  /\ binfile = [p \in Ids |-> NoFile]
  /\ now = 1

Next ==
  \/ Transform \/ ComputeStale \/ BuildPackages
  \/ PlanStep \/ DepStep
  \/ CompileCall \/ CompileMkdir \/ CompileGc \/ CompileCopy \/ CompileTool
  \/ LinkTemp \/ LinkRun \/ LinkWait \/ LinkMkdir \/ LinkRename
  \/ Crash \/ Rebuild

Spec == Init /\ [][Next]_vars

\* The files of one unit: its sources (all with one modification time), its
\* cached artifact and, for a command, its binary.
Stamps == 1..MaxStamp

UnitFiles(vv, i) ==
  IF i > Len(vv) THEN {[src |-> 1, pkg |-> 0, bin |-> 0]}
  ELSE [src : Stamps, pkg : {0} \cup Stamps,
        bin : IF vv[i].Main THEN {0} \cup Stamps ELSE {0}]

FileAt(mt) == IF mt = 0 THEN NoFile ELSE File(mt, "full")

\* The staleness analysis of the library over every well-formed graph and
\* every state of the sources, the cache and the binaries within the bounds
\* (at most one command among the units).
InitStale ==
  /\ IdleInit
  /\ program = "lib"
  /\ race = FALSE
  /\ v \in DagInputs
  /\ \A i, j \in DOMAIN v : (v[i].Main /\ v[j].Main) => i = j
  /\ bad = {}
  /\ \E f1 \in UnitFiles(v, 1), f2 \in UnitFiles(v, 2), f3 \in UnitFiles(v, 3) :
       LET f == <<f1, f2, f3>> IN
       /\ srcmt = [p \in Ids |-> IF p \notin UnitIds THEN Sources(1, 1)
                                  ELSE LET t == f[CHOOSE i \in 1..3 : IdSeq[i] = p].src
                                       IN Sources(t, t)]
       /\ pkgfile = [q \in PkgPaths |->
                       IF q[1] # "Pkgdir" \/ q[2] \notin UnitIds THEN NoFile
                       ELSE FileAt(f[CHOOSE i \in 1..3 : IdSeq[i] = q[2]].pkg)]
       /\ binfile = [p \in Ids |-> IF p \notin UnitIds THEN NoFile
                                    ELSE FileAt(f[CHOOSE i \in 1..3 : IdSeq[i] = p].bin)]
  /\ now = MaxStamp

NextStale == Transform \/ ComputeStale

SpecStale == InitStale /\ [][NextStale]_vars

\* Graph construction alone, over every descriptor list within the bounds
\* (duplicates, missing imports and import cycles included).
InitGraph ==
  /\ IdleInit
  /\ program \in {"cmd", "lib"}
  /\ race = FALSE
  /\ v \in InputLists
  /\ bad = {}
  /\ srcmt = [p \in Ids |-> Sources(1, 1)]
  /\ pkgfile = NoPkgFiles
  /\ binfile = [p \in Ids |-> NoFile]
  /\ now = 1

NextGraph == Transform

SpecGraph == InitGraph /\ [][NextGraph]_vars

\* computeStale called with a choice of roots: the roots transform returned
\* whose index is in S, in their order.
RECURSIVE Pick(_, _, _)
Pick(roots, S, k) ==
  IF k > Len(roots) THEN <<>>
  ELSE IF k \in S THEN <<roots[k]>> \o Pick(roots, S, k + 1)
  ELSE Pick(roots, S, k + 1)

ComputeStaleRoots ==
  /\ pc = "computeStale"
  /\ \E S \in SUBSET (DOMAIN pkgs) :
       /\ S # {}
       /\ pkgs' = Pick(pkgs, S, 1)
       /\ heap' = computeStale(heap, pkgs', force, pkgfile, binfile, srcmt)
  /\ pc' = "buildPackages"
  /\ UNCHANGED <<inVars, fsVars, err, planVars, execVars, run, edited>>

\* The staleness analysis over every library graph of units that are not
\* commands, every state of the sources and the cache within the bounds,
\* and every choice of roots.
InitRoots ==
  /\ IdleInit
  /\ program = "lib"
  /\ race = FALSE
  /\ v \in DagInputs
  /\ \A i \in DOMAIN v : ~v[i].Main
  /\ bad = {}
  /\ \E t \in [Ids -> Stamps] :
       /\ \A p \in Ids \ SrcsDomain(v) : t[p] = 1
       /\ srcmt = [p \in Ids |-> Sources(t[p], t[p])]
  /\ \E built \in [Ids -> {0} \cup Stamps] :
       /\ \A p \in Ids \ SrcsDomain(v) : built[p] = 0
       /\ pkgfile = [q \in PkgPaths |->
                       IF q[1] = "Pkgdir" THEN FileAt(built[q[2]]) ELSE NoFile]
  /\ binfile = [p \in Ids |-> NoFile]
  /\ now = MaxStamp

NextRoots == Transform \/ ComputeStaleRoots

SpecRoots == InitRoots /\ [][NextRoots]_vars

\* The build under either setting of Context.race, over the well-formed
\* inputs of at most two units.
InitRace ==
  /\ IdleInit
  /\ program \in {"cmd", "lib"}
  /\ race \in BOOLEAN
  /\ v \in {vv \in BuildInputs : Len(vv) <= 2}
  /\ bad \in SUBSET SrcsDomain(v)
  /\ srcmt = [p \in Ids |-> Sources(1, 1)]
  /\ pkgfile = NoPkgFiles
  /\ binfile = [p \in Ids |-> NoFile]
  /\ now = 1

SpecRace == InitRace /\ [][Next]_vars

\* ------------------------------------------------------------------ claims
\* The units q that unit p depends on, directly or transitively, by the
\* import lists of the descriptors.
ImportsOf(vv, p) ==
  {vv[Srcs(vv, p)].Imports[k] : k \in DOMAIN vv[Srcs(vv, p)].Imports} \cap SrcsDomain(vv)

RECURSIVE ReachFrom(_, _, _)
ReachFrom(vv, S, k) ==
  IF k = 0 THEN S
  ELSE ReachFrom(vv, S \cup UNION {ImportsOf(vv, q) : q \in S}, k - 1)

Deps(p) == ReachFrom(v, ImportsOf(v, p), Len(v))

Units == SrcsDomain(v)
Events(op, p) == {k \in DOMAIN log : log[k].op = op /\ log[k].pkg = p}
Count(op, p) == Cardinality(Events(op, p))
Roots == {heap[pkgs[k]].ImportPath : k \in DOMAIN pkgs}

\* C1: when two or more roots depend on the same stale unit, the plan
\* returned by buildPackages invokes that unit's Compile at most once.
C1_SharedCompiledOnce ==
  \A p \in Units :
    (bad = {} /\ Cardinality({r \in Roots : p \in Deps(r)}) >= 2) => Count("Compile", p) <= 1

\* C2: once the compile tool has failed for unit B, neither Compile nor Link
\* is invoked for a unit that depends on B.
C2_NoCompileAfterFailedDep ==
  \A i, j \in DOMAIN log :
    (i < j /\ log[i].op = "ToolFailed" /\ log[j].op \in {"Compile", "Link"})
      => log[i].pkg \notin Deps(log[j].pkg)

\* Unit B failed to compile: its compile tool failed or its Compile
\* returned an error.
FailedToCompile(b) ==
  \E k \in DOMAIN log :
    /\ log[k].pkg = b
    /\ \/ log[k].op = "ToolFailed"
       \/ log[k].op = "CompileRet" /\ log[k].err # NoErr

Completed(r) == \E k \in Events("RootRet", r) : log[k].err = NoErr
RootIndex(r) == CHOOSE k \in DOMAIN pkgs : heap[pkgs[k]].ImportPath = r
FailedRoots == {k \in DOMAIN pkgs :
                  \E e \in Events("RootRet", heap[pkgs[k]].ImportPath) : log[e].err # NoErr}
Independent(r, b) == r # b /\ b \notin Deps(r)

\* C3 as stated: when unit B failed to compile, every root that does not
\* depend on B has had its action run to completion when the plan is over.
C3_IndependentRootsComplete ==
  pc = "done" =>
    \A b \in Units : FailedToCompile(b) =>
      \A r \in Roots : Independent(r, b) => Completed(r)

\* C3 amended: when unit B failed to compile, a root that does not depend on
\* B has had its action run to completion if it comes before the first root
\* whose action returned an error (or if there is none), and was never
\* called if it comes after it.
C3_IndependentRootsBeforeFailure ==
  pc = "done" =>
    \A b \in Units : FailedToCompile(b) =>
      \A r \in Roots : Independent(r, b) =>
        /\ (\A k \in FailedRoots : RootIndex(r) < k) => Completed(r)
        /\ (\E k \in FailedRoots : RootIndex(r) > k) => Count("RootCall", r) = 0

C3_Witness ==
  /\ pc = "done"
  /\ \E b \in Units : FailedToCompile(b) /\
       \E r1, r2 \in Roots :
         /\ Independent(r1, b) /\ Independent(r2, b)
         /\ Completed(r1) /\ \A k \in FailedRoots : RootIndex(r1) < k
         /\ Count("RootCall", r2) = 0 /\ \E k \in FailedRoots : RootIndex(r2) > k

\* The calls of root actions and their returns, in the order they happened.
RootEvents == SelectSeq(log, LAMBDA e : e.op \in {"RootCall", "RootRet"})

\* C4: the plan calls the root actions in the order of the roots, one after
\* the other has returned; after the first one that returns an error it
\* calls no other and returns exactly that error; it returns nil only after
\* every root action returned nil.
C4_PlanInOrderStopsAtFirstError ==
  pc \in {"run", "done"} =>
    LET re == RootEvents IN
    /\ \A k \in DOMAIN re :
         /\ re[k].op = (IF k % 2 = 1 THEN "RootCall" ELSE "RootRet")
         /\ (k + 1) \div 2 <= Len(pkgs)
         /\ re[k].pkg = heap[pkgs[(k + 1) \div 2]].ImportPath
         /\ (re[k].op = "RootRet" /\ re[k].err # NoErr) =>
              k = Len(re) /\ pc = "done" /\ result = re[k].err
    /\ (pc = "done" /\ result = NoErr) =>
         /\ Len(re) = 2 * Len(pkgs)
         /\ \A k \in DOMAIN re : re[k].err = NoErr
    /\ (pc = "done" /\ result # NoErr) =>
         re # <<>> /\ re[Len(re)].op = "RootRet" /\ re[Len(re)].err = result

C4_Witness ==
  /\ pc = "done" /\ result # NoErr
  /\ Len(RootEvents) = 4
  /\ Len(pkgs) = 3

\* C5: a build that follows a successful build, with no source edited in
\* between and every unit compilable, classifies every unit fresh and
\* invokes no Compile.
C5_SecondBuildDoesNothing ==
  (run = "second" /\ ~edited /\ bad = {}) =>
    /\ pc \in {"buildPackages", "run", "done"} =>
         \A n \in DOMAIN heap : heap[n].NotStale
    /\ \A p \in Units : Count("Compile", p) = 0

\* The packages a package depends on, by the Imports of the heap.
RECURSIVE HeapReach(_, _, _)
HeapReach(hp, S, k) ==
  IF k = 0 THEN S
  ELSE HeapReach(hp, S \cup UNION {{hp[n].Imports[i] : i \in DOMAIN hp[n].Imports} : n \in S},
                 k - 1)

HeapDeps(hp, n) ==
  HeapReach(hp, {hp[n].Imports[i] : i \in DOMAIN hp[n].Imports}, Len(hp))

\* C6: after computeStale, a package with NotStale set has NotStale set on
\* every package it depends on, directly or transitively.
C6_StalenessContagious ==
  pc = "buildPackages" =>
    \A n \in DOMAIN heap :
      heap[n].NotStale => \A d \in HeapDeps(heap, n) : heap[d].NotStale

C6_Witness ==
  /\ pc = "buildPackages"
  /\ \E n \in DOMAIN heap :
       /\ heap[n].NotStale
       /\ Cardinality(HeapDeps(heap, n)) = 2
       /\ Len(heap[n].Imports) = 1

\* What C7 asks of a unit: a cached artifact, every dependency classified
\* fresh, its source older than the artifact, force and test scope off.
C7_Premise(n) ==
  LET pk == heap[n] IN
  /\ ~force /\ ~pk.testScope
  /\ pkgfile[pkgpath(pk)].mt # 0
  /\ \A k \in DOMAIN pk.Imports : heap[pk.Imports[k]].NotStale
  /\ \A f \in SourceFiles : srcmt[pk.ImportPath][f] < pkgfile[pkgpath(pk)].mt

\* What the code asks besides: no dependency's artifact newer than its own
\* and, for a command, a binary that is not older than the artifact.
C7_Extra(n) ==
  LET pk == heap[n]
      built == pkgfile[pkgpath(pk)].mt
  IN /\ \A k \in DOMAIN pk.Imports : pkgfile[pkgpath(heap[pk.Imports[k]])].mt <= built
     /\ pk.Main => (binfile[Binfile(pk)].mt # 0 /\ binfile[Binfile(pk)].mt >= built)

\* C7 as stated: such a unit is classified fresh.
C7_FreshWhenSourcesOlder ==
  pc = "buildPackages" =>
    \A n \in DOMAIN heap : C7_Premise(n) => heap[n].NotStale

\* C7 amended: such a unit is classified fresh provided no dependency's
\* cached artifact is newer than its own and, if it is a command, its binary
\* exists and is not older than its cached artifact.
C7_FreshWhenNothingNewer ==
  pc = "buildPackages" =>
    \A n \in DOMAIN heap : (C7_Premise(n) /\ C7_Extra(n)) => heap[n].NotStale

C7_Witness ==
  /\ pc = "buildPackages"
  /\ \E n \in DOMAIN heap :
       /\ C7_Premise(n) /\ C7_Extra(n)
       /\ heap[n].Main
       /\ Len(heap[n].Imports) = 2

\* The last call or return of Link in the log.
LinkEvents == {k \in DOMAIN log : log[k].op \in {"Link", "LinkRet"}}
LastLink == log[CHOOSE k \in LinkEvents : \A j \in LinkEvents : j <= k]

\* C8: the final path of a binary never holds a partly written file; while
\* a Link is in progress (or was killed) and after a Link that failed, it
\* holds what it held when that Link started; after a Link that succeeded
\* it holds the newly linked binary and the temporary file is gone.
C8_AtomicPublish ==
  /\ \A p \in Ids : binfile[p].data \in {"none", "full"}
  /\ LinkEvents # {} =>
       LET e == LastLink IN
       /\ e.op = "Link" => binfile[e.pkg] = binBefore
       /\ (e.op = "LinkRet" /\ e.err # NoErr) => binfile[e.pkg] = binBefore
       /\ (e.op = "LinkRet" /\ e.err = NoErr) =>
            /\ binfile[e.pkg].data = "full"
            /\ binfile[e.pkg].mt > binBefore.mt
            /\ tmpfile = NoFile

\* A Link killed while the link tool was writing, with an older binary in
\* place.
C8_Witness ==
  /\ pc = "crashed"
  /\ tmpfile.data = "partial"
  /\ binBefore.data = "full"

\* Defects of an input: identities given twice, imports not supplied, import
\* cycles.
DupIds(vv) == {vv[i].ImportPath : i \in {x \in DOMAIN vv :
                 \E y \in DOMAIN vv : y # x /\ vv[y].ImportPath = vv[x].ImportPath}}
MissingIds(vv) ==
  UNION {{vv[i].Imports[k] : k \in DOMAIN vv[i].Imports} : i \in DOMAIN vv} \ SrcsDomain(vv)
AnyImports(vv, p) ==
  UNION {{vv[i].Imports[k] : k \in DOMAIN vv[i].Imports} :
           i \in {x \in DOMAIN vv : vv[x].ImportPath = p}}
RECURSIVE AnyReach(_, _, _)
AnyReach(vv, S, k) ==
  IF k = 0 THEN S
  ELSE AnyReach(vv, S \cup UNION {AnyImports(vv, q) : q \in S}, k - 1)
NoImportCycle(vv) ==
  \A p \in SrcsDomain(vv) : p \notin AnyReach(vv, AnyImports(vv, p), Len(vv))
NoGraph == heap = <<>> /\ pkgs = <<>>

\* C9: when an identity is given twice (and the input has no other defect),
\* graph construction ends in a fatal error that names that identity, and
\* returns no graph.
C9_DuplicateIsFatal ==
  (pc # "transform" /\ DupIds(v) # {} /\ MissingIds(v) = {} /\ NoImportCycle(v)) =>
    /\ pc = "fatal"
    /\ err.names # {} /\ err.names \subseteq DupIds(v)
    /\ NoGraph

\* C10 as stated: when an import is not supplied (and the input has no
\* other defect), graph construction ends in a fatal error that names the
\* missing identity and a unit that imports it, and returns no graph.
C10_MissingNamesBoth ==
  (pc # "transform" /\ MissingIds(v) # {} /\ DupIds(v) = {} /\ NoImportCycle(v)) =>
    /\ pc = "fatal"
    /\ NoGraph
    /\ \E i \in DOMAIN v : \E k \in DOMAIN v[i].Imports :
         /\ v[i].Imports[k] \in MissingIds(v)
         /\ {v[i].Imports[k], v[i].ImportPath} \subseteq err.names

\* C10 amended: when an import is not supplied (and the input has no other
\* defect), graph construction ends in a fatal error that names one missing
\* identity and nothing else, and returns no graph.
C10_MissingNamesMissing ==
  (pc # "transform" /\ MissingIds(v) # {} /\ DupIds(v) = {} /\ NoImportCycle(v)) =>
    /\ pc = "fatal"
    /\ NoGraph
    /\ Cardinality(err.names) = 1
    /\ err.names \subseteq MissingIds(v)

C10_Witness ==
  /\ pc = "fatal"
  /\ err.at = "transform: not loaded"
  /\ DupIds(v) = {} /\ NoImportCycle(v)
  /\ Len(v) = 2

\* The referrers of node n: the root slots and the Imports entries that
\* hold its address.
RootSlots(n) == {k \in DOMAIN pkgs : pkgs[k] = n}
ImportSlots(n) ==
  {<<m, k>> \in (DOMAIN heap) \X (1..Cardinality(Ids)) :
     k \in DOMAIN heap[m].Imports /\ heap[m].Imports[k] = n}
Returned == pc # "transform" /\ err = NoErr

\* C11: in a graph returned by transform no two nodes have the same
\* identity, every root slot and every Imports entry holds the address of a
\* node of the graph, and in the library graph the k-th root is the node of
\* the k-th descriptor and the k-th Imports entry of a node is the node of
\* the k-th import of its descriptor.
C11_NodeSharing ==
  Returned =>
    /\ \A m, n \in DOMAIN heap : heap[m].ImportPath = heap[n].ImportPath => m = n
    /\ \A k \in DOMAIN pkgs : pkgs[k] \in DOMAIN heap
    /\ \A m \in DOMAIN heap : \A k \in DOMAIN heap[m].Imports :
         heap[m].Imports[k] \in DOMAIN heap
    /\ program = "lib" =>
         /\ Len(pkgs) = Len(v)
         /\ \A k \in DOMAIN pkgs :
              /\ heap[pkgs[k]].ImportPath = v[k].ImportPath
              /\ Len(heap[pkgs[k]].Imports) = Len(v[k].Imports)
              /\ \A j \in DOMAIN v[k].Imports :
                   heap[heap[pkgs[k]].Imports[j]].ImportPath = v[k].Imports[j]

\* A node of the library graph that a root slot and the Imports entry of
\* another node both refer to.
C11_Witness ==
  /\ Returned /\ program = "lib"
  /\ \E n \in DOMAIN heap : RootSlots(n) # {} /\ ImportSlots(n) # {}

\* The node of unit p and the units the analysis left stale (NotStale unset).
NodeOf(p) == CHOOSE n \in DOMAIN heap : heap[n].ImportPath = p
Planned == pc \in {"run", "done", "crashed"}
StaleUnits == {p \in Units : ~heap[NodeOf(p)].NotStale}

\* Before position j of the log the Compile of unit d returned nil with its
\* tool having succeeded, and never failed.
BuiltBefore(d, j) ==
  /\ \E i \in 1..(j - 1) :
       log[i].op = "CompileRet" /\ log[i].pkg = d /\ log[i].err = NoErr
  /\ \A i \in 1..(j - 1) :
       log[i].pkg = d =>
         /\ log[i].op # "ToolFailed"
         /\ log[i].op = "CompileRet" => log[i].err = NoErr

\* C12: every invocation of a unit's Compile comes after the Compile of each
\* of its stale dependencies (direct or transitive) has completed with
\* success, and not after the pipeline of one of them failed.
C12_DependenciesBuiltFirst ==
  Planned =>
    \A j \in DOMAIN log :
      log[j].op = "Compile" =>
        \A d \in Deps(log[j].pkg) \cap StaleUnits : BuiltBefore(d, j)

\* The verdict of IsStale and contagion for node n: stale by IsStale or
\* because a node it imports is.
RECURSIVE Verdict(_)
Verdict(n) ==
  \/ IsStale(heap, n, force, pkgfile, binfile, srcmt)
  \/ \E k \in DOMAIN heap[n].Imports : Verdict(heap[n].Imports[k])

\* The verdict of the staleness rules as the specification lists them, in
\* their order: synthetic, force, test scope, no artifact, a stale
\* dependency, a dependency's artifact newer than the unit's own, an entry
\* unit's binary missing or older than the artifact, a source file (Go or
\* assembly) modified at or after the artifact.
RECURSIVE RuleStale(_)
RuleStale(n) ==
  LET pk == heap[n]
      built == pkgfile[pkgpath(pk)].mt
  IN IF pk.ImportPath \notin UnitIds THEN FALSE
     ELSE \/ force
          \/ pk.testScope
          \/ built = 0
          \/ \E k \in DOMAIN pk.Imports : RuleStale(pk.Imports[k])
          \/ \E k \in DOMAIN pk.Imports : pkgfile[pkgpath(heap[pk.Imports[k]])].mt > built
          \/ pk.Main /\ (binfile[Binfile(pk)].mt = 0 \/ binfile[Binfile(pk)].mt < built)
          \/ \E f \in SourceFiles : srcmt[pk.ImportPath][f] >= built

Compiled == {p \in Units : Count("Compile", p) > 0}

\* C13: the analysis leaves NotStale unset on exactly the nodes the
\* staleness rules classify stale, and when the plan has returned nil the
\* units whose Compile was invoked are exactly those.
C13_ExactlyStaleBuilt ==
  /\ pc = "buildPackages" =>
       \A n \in DOMAIN heap : heap[n].NotStale = ~RuleStale(n)
  /\ (pc = "done" /\ result = NoErr) => Compiled = StaleUnits

\* The nodes reachable from the roots.
Reachable == HeapReach(heap, {pkgs[k] : k \in DOMAIN pkgs}, Len(heap))

\* C14: after computeStale returns, the NotStale flag of every node
\* reachable from the roots it was given equals the verdict IsStale and
\* contagion give it; a node they classify fresh is not left with NotStale
\* unset.
C14_CompleteAnnotation ==
  pc = "buildPackages" =>
    \A n \in Reachable : heap[n].NotStale = ~Verdict(n)

\* The computeStale call that led to this state, run again on the packages
\* as transform made them (NotStale unset), with the same roots and files.
Unset == [n \in DOMAIN heap |-> [heap[n] EXCEPT !.NotStale = FALSE]]
LastStaleRun == staleRun(Unset, pkgs, force, pkgfile, binfile, srcmt)
Times(evals, n) == Cardinality({k \in DOMAIN evals : evals[k] = n})
HasStaleImport(n) == \E k \in DOMAIN heap[n].Imports : ~heap[heap[n].Imports[k]].NotStale

\* C15 as stated: in one computeStale call every node reachable from the
\* roots has IsStale called and NotStale written exactly once.
C15_EvaluatedExactlyOnce ==
  pc = "buildPackages" =>
    LET evals == LastStaleRun.evals IN
    \A n \in Reachable : Times(evals, n) = 1

\* C15 amended: in one computeStale call no node has IsStale called and
\* NotStale written more than once; a node that is walked has them exactly
\* once if none of its imports was found stale and never otherwise, and a
\* node on which NotStale is set had them exactly once.
C15_EvaluatedAtMostOnce ==
  pc = "buildPackages" =>
    LET r == LastStaleRun IN
    /\ r.heap = heap
    /\ \A n \in DOMAIN heap :
         LET t == Times(r.evals, n) IN
         /\ t <= 1
         /\ heap[n].NotStale => t = 1
         /\ n \in r.seen => t = (IF HasStaleImport(n) THEN 0 ELSE 1)
         /\ n \notin r.seen => t = 0

\* A node reached from a root slot and from two Imports entries and
\* evaluated once, beside a node never evaluated.
C15_Witness ==
  /\ pc = "buildPackages"
  /\ LET evals == LastStaleRun.evals IN
     /\ \E n \in DOMAIN heap :
          /\ Times(evals, n) = 1
          /\ RootSlots(n) # {} /\ Cardinality(ImportSlots(n)) = 2
     /\ \E n \in Reachable : Times(evals, n) = 0

\* C16: IsStale is false for a synthetic unit ("unsafe") whatever the force flag, the
\* test scope and the files; after the analysis its NotStale is set; and no
\* Compile is invoked for it.
C16_SyntheticNeverBuilt ==
  /\ \A n \in DOMAIN heap :
       heap[n].ImportPath \notin UnitIds =>
         /\ \A frc, ts \in BOOLEAN :
              ~IsStale([heap EXCEPT ![n].testScope = ts], n, frc, pkgfile, binfile, srcmt)
         /\ Planned => heap[n].NotStale
  /\ \A k \in DOMAIN log : log[k].op = "Compile" => log[k].pkg \in UnitIds

\* A plan that ran to its end and compiled a unit that imports the synthetic
\* unit, of which the cache holds nothing.
C16_Witness ==
  /\ pc = "done"
  /\ \E p \in Compiled : \E q \in Deps(p) \ UnitIds : pkgfile[<<"Pkgdir", q>>] = NoFile

\* C17: after the analysis, a unit that has a cached artifact and whose
\* source has a modification time equal to or later than the artifact's is
\* classified stale.
C17_SourceNotOlderIsStale ==
  pc = "buildPackages" =>
    \A n \in DOMAIN heap :
      LET built == pkgfile[pkgpath(heap[n])].mt IN
      (/\ heap[n].ImportPath \in UnitIds
       /\ built # 0
       /\ \E f \in SourceFiles : srcmt[heap[n].ImportPath][f] >= built)
        => ~heap[n].NotStale

\* C18: after the analysis, a unit that has a cached artifact and an
\* assembly source newer than the artifact is classified stale.
C18_AssemblyNewerIsStale ==
  pc = "buildPackages" =>
    \A n \in DOMAIN heap :
      LET built == pkgfile[pkgpath(heap[n])].mt IN
      (heap[n].ImportPath \in UnitIds /\ built # 0 /\ srcmt[heap[n].ImportPath].s > built)
        => ~heap[n].NotStale

\* C19: when a tool Compile invoked has failed, or its install copy has,
\* Compile returns an error: the failure in the log is followed at once by
\* the return of that Compile with a non-nil error.
C19_ToolFailureReturned ==
  \A k \in DOMAIN log :
    log[k].op = "ToolFailed" =>
      (k < Len(log) => /\ log[k + 1].op = "CompileRet"
                       /\ log[k + 1].pkg = log[k].pkg
                       /\ log[k + 1].err # NoErr)

\* A step in which a stage of Compile fails: it logs the failure of a tool,
\* or the return of Compile with an error.
CompileFails ==
  /\ Len(log') > Len(log)
  /\ \E k \in (Len(log) + 1)..Len(log') :
       \/ log'[k].op = "ToolFailed"
       \/ log'[k].op = "CompileRet" /\ log'[k].err # NoErr

\* C20: a Compile that fails installs nothing: the step in which one of its
\* stages fails leaves every artifact of the cache exactly as it was.
C20_FailedCompileInstallsNothing ==
  [][CompileFails => pkgfile' = pkgfile]_vars

\* The directories in which the build creates files.
Dirs == DOMAIN CreateOp

\* Event k of the log has, earlier in the same call of Compile or Link, the
\* mkdir of directory d.
MadeBefore(d, k) ==
  \E j \in 1..(k - 1) :
    /\ log[j].op = MkdirOp[d]
    /\ log[j].pkg = log[k].pkg
    /\ \A i \in j..k : log[i].op \notin {"Compile", "Link"}

\* C21: in Compile and in Link, a file is created in a directory only after
\* the mkdir of that directory in the same call.
C21_MkdirBeforeCreate ==
  \A k \in DOMAIN log : \A d \in Dirs :
    log[k].op = CreateOp[d] => MadeBefore(d, k)

\* C22: Link is called for a unit only when the unit is a command that was
\* classified stale, and only right after the Compile of that unit returned
\* nil with none of its tools having failed.
C22_LinkOnlyAfterCompile ==
  \A k \in DOMAIN log :
    log[k].op = "Link" =>
      /\ heap[NodeOf(log[k].pkg)].Main
      /\ ~heap[NodeOf(log[k].pkg)].NotStale
      /\ k > 2
      /\ log[k - 1].op = "CompileRet"
      /\ log[k - 1].pkg = log[k].pkg
      /\ log[k - 1].err = NoErr
      /\ log[k - 2].op # "ToolFailed"

\* A step in which Compile returns nil with none of its tools having
\* failed: the artifact was installed.
CompileInstalls ==
  /\ Len(log') > Len(log)
  /\ \E k \in (Len(log) + 1)..Len(log') :
       log'[k].op = "CompileRet" /\ log'[k].err = NoErr
  /\ \A k \in (Len(log) + 1)..Len(log') : log'[k].op # "ToolFailed"

\* C23: under either setting of race, the artifact a Compile installs is at
\* pkgpath, the path IsStale stats for the unit and for the imports of its
\* dependents and the path Link hands to the link tool: after the install
\* the file at pkgpath is there, and it is the one file that changed.
C23_InstalledWhereRead ==
  [][CompileInstalls =>
       /\ pkgfile'[pkgpath(TopPkg)].mt # 0
       /\ \A q \in PkgPaths : pkgfile'[q] # pkgfile[q] => q = pkgpath(TopPkg)]_vars

\* No node of the graph reaches itself through Imports.
IsDag(hp) == \A n \in DOMAIN hp : n \notin HeapDeps(hp, n)

\* Graph construction ended with a fatal error of its own (fatal or panic),
\* not with the abort of the runtime on a stack that overflowed.
EndedFatal == pc = "fatal" /\ err.kind \in {"fatal", "panic"} /\ NoGraph

\* C24: graph construction ends, for every input within the bounds (import
\* cycles included), with a graph that is acyclic or with a fatal error.
C24_AcyclicOrFatal ==
  pc # "transform" => \/ Returned /\ IsDag(heap)
                      \/ EndedFatal

\* A step in which Link returns an error after it has created its temporary
\* file: a return of Link from a stage later than TempFile.
LinkFailsLate ==
  /\ At("Link:run") \/ At("Link:wait") \/ At("Link:mkdir") \/ At("Link:rename")
  /\ Len(log') > Len(log)
  /\ log'[Len(log) + 1].op = "LinkRet"
  /\ log'[Len(log) + 1].err # NoErr

\* C25 as stated: when Link returns an error after it has created its
\* temporary file, the temporary file is gone.
C25_TempRemovedOnFailure ==
  [][LinkFailsLate => tmpfile' = NoFile]_vars

====
